---- MODULE Spec2Model ----
(***************************************************************************)
(* Model of the RuPing standalone installer and uninstaller                *)
(* (src/installer/installer.py, src/installer/uninstaller.py).             *)
(*                                                                         *)
(* Strings that the code inspects character by character (the registry     *)
(* PATH value, directory names) are sequences of one-character strings;    *)
(* the delimiter is ";".  A directory is identified with its path string.  *)
(***************************************************************************)
EXTENDS Integers, Sequences, FiniteSets, TLC

VARIABLES pathv,      \* registry value PATH of the machine environment key
          dirs,       \* directories that exist
          files,      \* files[d]: names of the files directly inside d
          ledger,     \* ledger[d]: content of d/install_info.json
          startMenu,  \* shortcut descriptors present in the Start Menu folder
          run,        \* record of the last operation that ran
          steps,      \* number of operations run so far
          faulted     \* number of environment failures met so far

vars == <<pathv, dirs, files, ledger, startMenu, run, steps, faulted>>

(***************************************************************************)
(* Bounds of the model                                                     *)
(***************************************************************************)
\* longest initial PATH value of the search-path specification
MaxPathLen == 6
\* longest initial PATH value of the orchestrator specification
MaxInitPath == 0
\* operations in one behaviour of the orchestrator specification
MaxSteps == 3
\* environment failures met in one behaviour
MaxFaults == 1
\* calls in one behaviour of the resource-locator specification
MaxCalls == 2

(***************************************************************************)
(* Strings                                                                 *)
(***************************************************************************)
Delim == ";"
Chars == {"p", "l", Delim}

\* the absent value (Python None); also the empty string, which the code's
\* truth tests treat alike
None == <<>>

RECURSIVE StringsUpTo(_)
StringsUpTo(n) ==
    IF n = 0 THEN {<<>>}
    ELSE LET shorter == StringsUpTo(n - 1)
         IN  shorter \cup {Append(s, c) : s \in {t \in shorter : Len(t) = n - 1}, c \in Chars}

\* Python: s in t  (substring test on str)
IsSubstr(s, t) ==
    \E i \in 0..(Len(t) - Len(s)) : SubSeq(t, i + 1, i + Len(s)) = s

\* Python: s.split(';')
RECURSIVE Split(_)
Split(s) ==
    IF \A i \in 1..Len(s) : s[i] # Delim THEN <<s>>
    ELSE LET i == CHOOSE k \in 1..Len(s) :
                      s[k] = Delim /\ \A j \in 1..(k - 1) : s[j] # Delim
         IN  <<SubSeq(s, 1, i - 1)>> \o Split(SubSeq(s, i + 1, Len(s)))

\* variant: every segment is followed by the delimiter
RECURSIVE Join_terminating(_)
Join_terminating(ps) ==
    IF ps = <<>> THEN <<>>
    ELSE ps[1] \o <<Delim>> \o Join_terminating(Tail(ps))

\* Python: ';'.join(ps)
RECURSIVE Join(_)
Join(ps) ==
    IF ps = <<>> THEN <<>>
    ELSE IF Len(ps) = 1 THEN ps[1]
    ELSE ps[1] \o <<Delim>> \o Join(Tail(ps))

\* number of segments of PATH value v that equal d
Count(v, d) == Cardinality({i \in 1..Len(Split(v)) : Split(v)[i] = d})

(***************************************************************************)
(* Directories                                                             *)
(***************************************************************************)
\* Path(os.environ.get('PROGRAMFILES', 'C:\\Program Files')) / app_name
default_install_path == <<"p">>
\* Path(os.environ.get('LOCALAPPDATA', '')) / app_name
LocalAppDataDir == <<"l">>
\* Path("C:") / app_name
DriveDir == <<"p", "l">>
\* the directories a run can be pointed at
Dirs == {default_install_path, LocalAppDataDir, DriveDir}

(***************************************************************************)
(* Files                                                                   *)
(***************************************************************************)
exe_name == "ruping.exe"
uninstaller_exe == "ruping-uninstaller.exe"
install_info_file == "install_info.json"
aliases == <<"ruping", "rustping", "rping">>
alias_cmds == <<"ruping.cmd", "rustping.cmd", "rping.cmd">>
UserFile == "user.txt"

FileNames == {exe_name, uninstaller_exe, install_info_file, "uninstaller.py",
              "ruping.cmd", "rustping.cmd", "rping.cmd", UserFile}

\* EMBEDDED_FILES: TRUE where the table holds non-empty content
EMBEDDED_FILES ==
    [f \in {exe_name, "uninstaller.py", "ruping.cmd", "rustping.cmd", "rping.cmd"} |->
        f \notin {exe_name, "uninstaller.py"}]

\* files_to_extract of install(), in order
files_to_extract == <<exe_name, uninstaller_exe>> \o alias_cmds

\* variant: the list names the uninstaller script as well
installed_files_with_script ==
    <<exe_name, uninstaller_exe, install_info_file, "uninstaller.py">> \o alias_cmds

\* the "installed_files" list that save_install_info() writes
installed_files_written == <<exe_name, uninstaller_exe, install_info_file>> \o alias_cmds

\* the default files_to_remove of uninstall()
default_files_to_remove ==
    <<exe_name, "ruping.cmd", "rustping.cmd", "rping.cmd", "uninstaller.py", install_info_file>>

Range(s) == {s[i] : i \in 1..Len(s)}

(***************************************************************************)
(* Environment failures an operation can meet                              *)
(***************************************************************************)
\* "mkdir": creating install_dir raises;  "registry": opening, reading or
\* writing the environment key raises;  "broadcast": the settings-changed
\* call raises;  "shortcut": the Start Menu write or unlink raises;
\* "ledger": opening install_info.json for writing raises;  "dump": writing
\* the opened install_info.json raises;  "rmdir": listing or removing
\* install_dir raises;  a file name: copying, writing or unlinking that file
\* raises;  "hung": a window that receives the settings-changed message never
\* answers it.
FaultKinds == {"mkdir", "registry", "broadcast", "hung", "shortcut", "ledger", "dump",
               "rmdir"}
                 \cup (FileNames \ {UserFile, "uninstaller.py"})

\* the failures an operation may meet, given those met before it
RECURSIVE SetsUpTo(_, _)
SetsUpTo(S, n) ==
    IF n <= 0 THEN {{}}
    ELSE LET smaller == SetsUpTo(S, n - 1)
         IN  smaller \cup {F \cup {x} : F \in smaller, x \in S}

FaultSets == SetsUpTo(FaultKinds, MaxFaults - faulted)

\* outcome of ctypes.windll.shell32.IsUserAnAdmin()
Probes == {"admin", "user", "error"}

\* variant: a failed probe is taken for administrator rights
is_admin_unless_refused(probe) == probe # "user"

is_admin(probe) == probe = "admin"

(***************************************************************************)
(* Packaging of the running installer                                      *)
(***************************************************************************)
\* meipass: the process runs from a PyInstaller bundle (sys._MEIPASS set)
\* bundled: files present in the bundle directory
\* localf:  files present at one of the local candidate paths
Pkg(m, b, l) == [meipass |-> m, bundled |-> b, localf |-> l]
\* the build of build_exe.py: both executables added as data files
StandardPkg == Pkg(TRUE, {exe_name, uninstaller_exe}, {})
\* a bundle that lacks the uninstaller, and the plain script beside its files
Packagings ==
    {StandardPkg,
     Pkg(TRUE, {exe_name}, {}),
     Pkg(FALSE, {}, {exe_name, uninstaller_exe})}

\* variant: content of the table is taken before the bundle is looked at
extract_embedded_file_table_first(filename, pkg, faults) ==
    IF filename \in DOMAIN EMBEDDED_FILES /\ EMBEDDED_FILES[filename]
    THEN IF filename \in faults
         THEN [ok |-> FALSE, src |-> "none"]
         ELSE [ok |-> TRUE, src |-> "embedded"]
    ELSE IF pkg.meipass /\ filename \in pkg.bundled
    THEN IF filename \in faults
         THEN [ok |-> FALSE, src |-> "none"]
         ELSE [ok |-> TRUE, src |-> "bundle"]
    ELSE IF filename \in pkg.localf /\ filename \notin faults
    THEN [ok |-> TRUE, src |-> "local"]
    ELSE [ok |-> FALSE, src |-> "none"]

\* extract_embedded_file: [ok, src]
extract_embedded_file(filename, pkg, faults) ==
    IF pkg.meipass /\ filename \in pkg.bundled
    THEN IF filename \in faults
         THEN [ok |-> FALSE, src |-> "none"]
         ELSE [ok |-> TRUE, src |-> "bundle"]
    ELSE IF filename \notin DOMAIN EMBEDDED_FILES
    THEN IF filename \in pkg.localf /\ filename \notin faults
         THEN [ok |-> TRUE, src |-> "local"]
         ELSE [ok |-> FALSE, src |-> "none"]
    ELSE IF ~EMBEDDED_FILES[filename]
    THEN [ok |-> FALSE, src |-> "none"]
    ELSE IF filename \in faults
    THEN [ok |-> FALSE, src |-> "none"]
    ELSE [ok |-> TRUE, src |-> "embedded"]

\* variant: the loop notes the first failure and goes on to the next file
RECURSIVE ExtractLoop_going_on(_, _, _, _, _)
ExtractLoop_going_on(i, pkg, faults, written, srcs) ==
    IF i > Len(files_to_extract)
    THEN [written |-> written, srcs |-> srcs, failed |-> ""]
    ELSE LET r == extract_embedded_file(files_to_extract[i], pkg, faults)
             rest == ExtractLoop_going_on(i + 1, pkg, faults,
                         IF r.ok THEN Append(written, files_to_extract[i]) ELSE written,
                         IF r.ok THEN Append(srcs, r.src) ELSE srcs)
         IN  IF r.ok THEN rest
             ELSE [rest EXCEPT !.failed = files_to_extract[i]]

\* the extraction loop of install(): the files written, their sources and the
\* file at which the loop returned ("" when every file was extracted)
RECURSIVE ExtractLoop(_, _, _, _, _)
ExtractLoop(i, pkg, faults, written, srcs) ==
    IF i > Len(files_to_extract)
    THEN [written |-> written, srcs |-> srcs, failed |-> ""]
    ELSE LET r == extract_embedded_file(files_to_extract[i], pkg, faults)
         IN  IF ~r.ok
             THEN [written |-> written, srcs |-> srcs, failed |-> files_to_extract[i]]
             ELSE ExtractLoop(i + 1, pkg, faults,
                              Append(written, files_to_extract[i]), Append(srcs, r.src))

(***************************************************************************)
(* Search-path mutator                                                     *)
(***************************************************************************)
\* add_to_path: [ok, value, notify, returns]; SendMessageW waits until every
\* window has processed the message, so the call does not return when one
\* never answers
add_to_path(current_path, path_to_add, faults) ==
    IF "registry" \in faults
    THEN [ok |-> FALSE, value |-> current_path, notify |-> "none", returns |-> TRUE]
    ELSE IF ~IsSubstr(path_to_add, current_path)
    THEN [ok |-> "broadcast" \notin faults /\ "hung" \notin faults,
          value |-> current_path \o <<Delim>> \o path_to_add,
          notify |-> "SendMessageW",
          returns |-> "hung" \notin faults]
    ELSE [ok |-> TRUE, value |-> current_path, notify |-> "none", returns |-> TRUE]

\* variant: drops every entry that contains the directory's string
remove_from_path_containing(current_path, path_to_remove, faults) ==
    IF "registry" \in faults
    THEN [ok |-> FALSE, value |-> current_path, notify |-> "none", returns |-> TRUE]
    ELSE LET paths == Split(current_path)
             new_paths == SelectSeq(paths, LAMBDA p : ~IsSubstr(path_to_remove, p))
         IN  [ok |-> TRUE, value |-> Join(new_paths),
              notify |-> "SendMessageTimeoutW", returns |-> TRUE]

\* variant: a broadcast that raises makes the call fail, as in add_to_path
remove_from_path_needing_broadcast(current_path, path_to_remove, faults) ==
    IF "registry" \in faults
    THEN [ok |-> FALSE, value |-> current_path, notify |-> "none", returns |-> TRUE]
    ELSE LET paths == Split(current_path)
             new_paths == SelectSeq(paths, LAMBDA p : p # path_to_remove)
         IN  [ok |-> "broadcast" \notin faults, value |-> Join(new_paths),
              notify |-> "SendMessageTimeoutW", returns |-> TRUE]

\* remove_from_path: [ok, value, notify, returns]; SendMessageTimeoutW comes
\* back after 3000 ms per window, and an exception of it is caught on the spot
remove_from_path(current_path, path_to_remove, faults) ==
    IF "registry" \in faults
    THEN [ok |-> FALSE, value |-> current_path, notify |-> "none", returns |-> TRUE]
    ELSE LET paths == Split(current_path)
             new_paths == SelectSeq(paths, LAMBDA p : p # path_to_remove)
         IN  [ok |-> TRUE, value |-> Join(new_paths),
              notify |-> "SendMessageTimeoutW", returns |-> TRUE]

(***************************************************************************)
(* Shortcut manager                                                        *)
(***************************************************************************)
\* variant: the uninstaller knows the .lnk name only
ShortcutNames_lnk_only == <<"RuPing.lnk">>

\* the names remove_start_menu_shortcut looks for
ShortcutNames == <<"RuPing.lnk", "RuPing.url">>

\* the file create_start_menu_shortcut writes
created_shortcut == "RuPing.url"

\* the product's files in the Start Menu directory
ShortcutFiles == {"RuPing.lnk", "RuPing.url"}

NoShortcuts == [n \in ShortcutFiles |-> None]

\* create_start_menu_shortcut: writes RuPing.url pointing into install_dir
create_start_menu_shortcut(menu, install_dir, faults) ==
    IF "shortcut" \in faults
    THEN [ok |-> FALSE, menu |-> menu]
    ELSE [ok |-> TRUE, menu |-> [menu EXCEPT ![created_shortcut] = install_dir]]

\* remove_start_menu_shortcut: unlinks every file of ShortcutNames that
\* exists; [ok, menu, raised]
remove_start_menu_shortcut(menu, faults) ==
    IF \A n \in Range(ShortcutNames) : menu[n] = None
    THEN [ok |-> FALSE, menu |-> menu, raised |-> FALSE]
    ELSE IF "shortcut" \in faults
    THEN [ok |-> FALSE, menu |-> menu, raised |-> TRUE]
    ELSE [ok |-> TRUE, raised |-> FALSE,
          menu |-> [n \in DOMAIN menu |->
                       IF n \in Range(ShortcutNames) THEN None ELSE menu[n]]]

(***************************************************************************)
(* Install ledger                                                          *)
(***************************************************************************)
NoLedger == [state |-> "absent", install_path |-> None, installed_files |-> <<>>]
CorruptLedger == [state |-> "corrupt", install_path |-> None, installed_files |-> <<>>]

\* the record save_install_info() dumps
install_info(install_dir) ==
    [state |-> "ok", install_path |-> install_dir,
     installed_files |-> installed_files_written]

\* save_install_info(): [ok, ledger] for the ledger found in install_dir
save_install_info(current, install_dir, faults) ==
    IF "ledger" \in faults THEN [ok |-> FALSE, ledger |-> current]
    ELSE IF "dump" \in faults THEN [ok |-> FALSE, ledger |-> CorruptLedger]
    ELSE [ok |-> TRUE, ledger |-> install_info(install_dir)]

(***************************************************************************)
(* The record of an operation                                              *)
(***************************************************************************)
NoRun ==
    [op |-> "none",          \* "install", "uninstall", "add_to_path", "remove_from_path", "external"
     rights |-> "none",      \* what the privilege probe gave
     from |-> None,          \* the running uninstaller's directory, when consulted
     dir |-> None,           \* install_dir, once determined
     old |-> None,           \* the PATH value a mutator call read
     silent |-> FALSE,
     no_path |-> FALSE,
     result |-> "none",      \* "exit" (sys.exit(1)), "false", "true", "blocked" (no return)
     file |-> "",            \* the file a lone extract_embedded_file call was given
     pkg |-> Pkg(FALSE, {}, {}),   \* and the packaging it ran in
     src |-> "none",         \* where it took the file from
     raised |-> {},          \* the copy or store failures a lone call met, and
                             \* "shortcut" when the shortcut removal raised
     extracted |-> <<>>,     \* files written by the extraction loop
     failed |-> "",          \* the file whose extraction failed
     pathRes |-> "skip",     \* "ok", "fail": what the path mutator returned
     notify |-> "none",      \* the broadcast call made
     shortcutRes |-> "skip",
     ledgerRes |-> "skip",
     via |-> "none",         \* how uninstall found install_dir
     usedInfo |-> FALSE,     \* uninstall held a parsed ledger
     prompts |-> {},         \* interactive inputs asked for
     answer |-> "-",         \* what was typed at the confirmation prompt
     listed |-> <<>>,        \* files_to_remove
     tried |-> {},           \* files unlink was called on
     undeleted |-> {},       \* those whose unlink raised
     rmdirRes |-> "skip"]    \* "ok", "fail", "kept"

FilesIn(d) == IF d \in dirs THEN files[d] ELSE {}

LedgerIn(d) == IF d \in dirs THEN ledger[d] ELSE NoLedger

(***************************************************************************)
(* install()                                                               *)
(***************************************************************************)
\* variant: install() reports failure when a step after the extraction failed
install_result_of_all_steps(added_ok, made_ok, saved_ok) ==
    IF added_ok /\ made_ok /\ saved_ok THEN "true" ELSE "false"

\* what install() returns after the extraction loop: the flags that
\* add_to_path and create_start_menu_shortcut return are not looked at, and
\* save_install_info returns none
install_result(added_ok, made_ok, saved_ok) == "true"

\* variant: the directory is registered whatever no_path says
register_path_regardless(no_path, current_path, install_dir, faults) ==
    LET r == add_to_path(current_path, install_dir, faults)
    IN  [value |-> r.value, notify |-> r.notify, returns |-> r.returns,
         res |-> IF r.ok THEN "ok" ELSE "fail"]

\* the path step of install(): add_to_path unless no_path
register_path(no_path, current_path, install_dir, faults) ==
    IF no_path
    THEN [value |-> current_path, notify |-> "none", returns |-> TRUE, res |-> "skip"]
    ELSE LET r == add_to_path(current_path, install_dir, faults)
         IN  [value |-> r.value, notify |-> r.notify, returns |-> r.returns,
              res |-> IF r.ok THEN "ok" ELSE "fail"]

\* silent selects only what install() prints and is not modelled
Install(install_path, no_path, probe, pkg, faults) ==
    LET install_dir == IF install_path # None THEN install_path
                       ELSE default_install_path
        base == [NoRun EXCEPT !.op = "install", !.rights = probe,
                              !.no_path = no_path]
        ext == ExtractLoop(1, pkg, faults, <<>>, <<>>)
        added == register_path(no_path, pathv, install_dir, faults)
        made == create_start_menu_shortcut(startMenu, install_dir, faults)
        saved == save_install_info(LedgerIn(install_dir), install_dir, faults)
    IN
    /\ steps < MaxSteps
    /\ steps' = steps + 1
    /\ faulted' = faulted + Cardinality(faults)
    /\ IF ~is_admin(probe)
       THEN \* require_admin(): sys.exit(1)
            /\ run' = [base EXCEPT !.result = "exit"]
            /\ UNCHANGED <<pathv, dirs, files, ledger, startMenu>>
       ELSE IF "mkdir" \in faults /\ install_dir \notin dirs
       THEN /\ run' = [base EXCEPT !.result = "false", !.dir = install_dir]
            /\ UNCHANGED <<pathv, dirs, files, ledger, startMenu>>
       ELSE IF ext.failed # ""
       THEN /\ run' = [base EXCEPT !.result = "false", !.dir = install_dir,
                                   !.extracted = ext.written, !.failed = ext.failed]
            /\ dirs' = dirs \cup {install_dir}
            /\ files' = [files EXCEPT ![install_dir] =
                             FilesIn(install_dir) \cup Range(ext.written)]
            /\ UNCHANGED <<pathv, ledger, startMenu>>
       ELSE IF ~added.returns
       THEN \* add_to_path() is still waiting in SendMessageW
            /\ run' = [base EXCEPT !.result = "blocked", !.dir = install_dir,
                                   !.extracted = ext.written,
                                   !.notify = added.notify]
            /\ dirs' = dirs \cup {install_dir}
            /\ files' = [files EXCEPT ![install_dir] =
                             FilesIn(install_dir) \cup Range(ext.written)]
            /\ pathv' = added.value
            /\ UNCHANGED <<ledger, startMenu>>
       ELSE /\ run' = [base EXCEPT
                         !.result = install_result(added.res # "fail", made.ok, saved.ok),
                         !.dir = install_dir,
                         !.extracted = ext.written,
                         !.pathRes = added.res,
                         !.notify = added.notify,
                         !.shortcutRes = IF made.ok THEN "ok" ELSE "fail",
                         !.ledgerRes = IF saved.ok THEN "ok" ELSE "fail"]
            /\ dirs' = dirs \cup {install_dir}
            /\ pathv' = added.value
            /\ startMenu' = made.menu
            /\ ledger' = [ledger EXCEPT ![install_dir] = saved.ledger]
            /\ files' = [files EXCEPT ![install_dir] =
                             FilesIn(install_dir) \cup Range(ext.written)
                                 \cup (IF saved.ledger.state # "absent"
                                       THEN {install_info_file} ELSE {})]

(***************************************************************************)
(* uninstall()                                                             *)
(***************************************************************************)
\* a directory that exists and holds nothing of the product, from which the
\* uninstaller may be started
Elsewhere == <<"l", "l">>

\* possible_paths of find_installation(), in order
possible_paths == <<default_install_path, LocalAppDataDir, DriveDir>>

\* the first of possible_paths that exists and holds the main executable
FirstProbed ==
    LET i == CHOOSE k \in 1..Len(possible_paths) :
                 /\ exe_name \in FilesIn(possible_paths[k])
                 /\ \A j \in 1..(k - 1) : exe_name \notin FilesIn(possible_paths[j])
    IN  possible_paths[i]

\* what reading current_dir/install_info.json gives: "skip" (no such file),
\* "ok" (parsed) or "fail" (the warning: it could not be read)
ReadLedger(current_dir) ==
    IF LedgerIn(current_dir).state = "absent" THEN "skip"
    ELSE IF LedgerIn(current_dir).state = "ok" THEN "ok"
    ELSE "fail"

\* variant: an unreadable ledger ends the search
find_installation_strict(current_dir) ==
    IF ReadLedger(current_dir) = "ok"
    THEN [dir |-> LedgerIn(current_dir).install_path,
          info |-> LedgerIn(current_dir), via |-> "ledger", read |-> "ok"]
    ELSE IF ReadLedger(current_dir) = "fail"
    THEN [dir |-> None, info |-> NoLedger, via |-> "none", read |-> "fail"]
    ELSE IF exe_name \in FilesIn(current_dir)
    THEN [dir |-> current_dir, info |-> NoLedger, via |-> "current", read |-> "skip"]
    ELSE IF \E i \in 1..Len(possible_paths) : exe_name \in FilesIn(possible_paths[i])
    THEN [dir |-> FirstProbed, info |-> NoLedger, via |-> "probe", read |-> "skip"]
    ELSE [dir |-> None, info |-> NoLedger, via |-> "none", read |-> "skip"]

\* find_installation(): [dir, info, via, read]
find_installation(current_dir) ==
    IF ReadLedger(current_dir) = "ok"
    THEN [dir |-> LedgerIn(current_dir).install_path,
          info |-> LedgerIn(current_dir), via |-> "ledger", read |-> "ok"]
    ELSE IF exe_name \in FilesIn(current_dir)
    THEN [dir |-> current_dir, info |-> NoLedger, via |-> "current",
          read |-> ReadLedger(current_dir)]
    ELSE IF \E i \in 1..Len(possible_paths) : exe_name \in FilesIn(possible_paths[i])
    THEN [dir |-> FirstProbed, info |-> NoLedger, via |-> "probe",
          read |-> ReadLedger(current_dir)]
    ELSE [dir |-> None, info |-> NoLedger, via |-> "none",
          read |-> ReadLedger(current_dir)]

\* an installed_files entry that is an absolute path: user.txt in the local
\* application data directory
AbsoluteEntry == "/l/user.txt"

\* install_dir / filename: an absolute right operand replaces the left one;
\* [dir, name] of the file the joined path names
join_path(install_dir, filename) ==
    IF filename = AbsoluteEntry
    THEN [dir |-> LocalAppDataDir, name |-> UserFile]
    ELSE [dir |-> install_dir, name |-> filename]

\* files_to_remove of uninstall()
files_to_remove(info) ==
    IF info.state = "ok" THEN info.installed_files ELSE default_files_to_remove

\* what may be typed at the confirmation prompt (stripped, lower-cased)
Answers == {"y", "yes", "n", ""}

\* variant: pressing Enter counts as yes
confirmed_by_default(answer) == answer \in {"y", "yes", ""}

confirmed(answer) == answer \in {"y", "yes"}

\* the outcome of the directory removal: "kept" (not empty), "ok", "fail";
\* variant: the directory is removed with what is left in it
remove_dir_with_rest(left, faults) ==
    IF "rmdir" \in faults THEN "fail" ELSE "ok"

remove_dir_if_empty(left, faults) ==
    IF left # {} THEN "kept"
    ELSE IF "rmdir" \in faults THEN "fail" ELSE "ok"

\* variant: uninstall() reports failure when a file could not be deleted
uninstall_result_counting(removal_ok, unmade_ok, undeleted, rmdirRes) ==
    IF undeleted = {} THEN "true" ELSE "false"

\* what uninstall() returns after its removal steps
uninstall_result(removal_ok, unmade_ok, undeleted, rmdirRes) == "true"

\* uninstall() returning False, nothing touched
GiveUp(base, install_dir, via, asked) ==
    /\ run' = [base EXCEPT !.result = "false", !.dir = install_dir,
                           !.via = via, !.prompts = asked]
    /\ UNCHANGED <<pathv, dirs, files, ledger, startMenu, faulted>>

\* the steps of uninstall() after the location is known and confirmed
Remove(base, install_dir, info, via, asked, faults) ==
    LET removal == remove_from_path(pathv, install_dir, faults)
        unmade == remove_start_menu_shortcut(startMenu, faults)
        listed == files_to_remove(info)
        tried == {f \in Range(listed) :
                     join_path(install_dir, f).name
                         \in FilesIn(join_path(install_dir, f).dir)}
        unlinked(d) == {join_path(install_dir, f).name :
                           f \in {g \in tried \ faults :
                                     join_path(install_dir, g).dir = d}}
        left == FilesIn(install_dir) \ unlinked(install_dir)
        removed == remove_dir_if_empty(left, faults) = "ok"
    IN
    /\ run' = [base EXCEPT
                 !.result = uninstall_result(removal.ok, unmade.ok, tried \cap faults,
                                             remove_dir_if_empty(left, faults)),
                 !.dir = install_dir, !.via = via,
                 !.usedInfo = (info.state = "ok"), !.prompts = asked,
                 !.pathRes = IF removal.ok THEN "ok" ELSE "fail",
                 !.notify = removal.notify,
                 !.shortcutRes = IF unmade.ok THEN "ok" ELSE "fail",
                 !.raised = IF unmade.raised THEN {"shortcut"} ELSE {},
                 !.listed = listed, !.tried = tried,
                 !.undeleted = tried \cap faults,
                 !.rmdirRes = remove_dir_if_empty(left, faults)]
    /\ faulted' = faulted + Cardinality(faults)
    /\ pathv' = removal.value
    /\ startMenu' = unmade.menu
    /\ files' = [d \in Dirs |->
                     IF d = install_dir THEN (IF removed THEN {} ELSE left)
                     ELSE files[d] \ unlinked(d)]
    /\ ledger' = [ledger EXCEPT ![install_dir] =
                     IF install_info_file \in left /\ ~removed
                     THEN ledger[install_dir] ELSE NoLedger]
    /\ dirs' = IF removed THEN dirs \ {install_dir} ELSE dirs

\* variant: the confirmation is asked for in silent mode too
Confirm_asking(base, install_dir, info, via, asked) ==
    \E answer \in Answers :
        IF confirmed(answer)
        THEN \E faults \in FaultSets :
                Remove([base EXCEPT !.answer = answer], install_dir, info, via,
                       asked \cup {"confirm"}, faults)
        ELSE GiveUp([base EXCEPT !.answer = answer], install_dir, via,
                    asked \cup {"confirm"})

\* the confirmation prompt of uninstall() and what follows it
Confirm(base, install_dir, info, via, asked) ==
    IF base.silent
    THEN \E faults \in FaultSets : Remove(base, install_dir, info, via, asked, faults)
    ELSE \E answer \in Answers :
            IF confirmed(answer)
            THEN \E faults \in FaultSets :
                    Remove([base EXCEPT !.answer = answer], install_dir, info, via,
                           asked \cup {"confirm"}, faults)
            ELSE GiveUp([base EXCEPT !.answer = answer], install_dir, via,
                        asked \cup {"confirm"})

\* uninstall(); current_dir is the directory of the running uninstaller
Uninstall(install_path, silent, probe, current_dir) ==
    LET base == [NoRun EXCEPT !.op = "uninstall", !.silent = silent,
                              !.rights = probe,
                              !.from = IF is_admin(probe) /\ install_path = None
                                       THEN current_dir ELSE None]
        found == IF install_path # None
                 THEN [dir |-> install_path, info |-> NoLedger, via |-> "arg",
                       read |-> "skip"]
                 ELSE find_installation(current_dir)
        seen == [base EXCEPT !.ledgerRes = found.read]
    IN
    /\ steps < MaxSteps
    /\ steps' = steps + 1
    /\ IF ~is_admin(probe)
       THEN \* require_admin(): sys.exit(1)
            /\ run' = [base EXCEPT !.result = "exit"]
            /\ UNCHANGED <<pathv, dirs, files, ledger, startMenu, faulted>>
       ELSE IF found.dir = None \/ found.dir \notin dirs
       THEN IF silent
            THEN GiveUp(seen, None, found.via, {})
            ELSE \E custom_path \in Dirs \cup {None} :
                    IF custom_path # None /\ custom_path \in dirs
                    THEN Confirm(seen, custom_path, found.info, "manual", {"path"})
                    ELSE GiveUp(seen, None, found.via, {"path"})
       ELSE Confirm(seen, found.dir, found.info, found.via, {})

(***************************************************************************)
(* Changes made from outside between two runs                              *)
(***************************************************************************)
\* somebody puts a file of their own into a directory
UserAddsFile(d) ==
    /\ steps < MaxSteps
    /\ steps' = steps + 1
    /\ UserFile \notin FilesIn(d)
    /\ dirs' = dirs \cup {d}
    /\ files' = [files EXCEPT ![d] = FilesIn(d) \cup {UserFile}]
    /\ run' = [NoRun EXCEPT !.op = "external", !.dir = d]
    /\ UNCHANGED <<pathv, ledger, startMenu, faulted>>

\* the ledger file of an installation is damaged
LedgerDamaged(d) ==
    /\ steps < MaxSteps
    /\ steps' = steps + 1
    /\ LedgerIn(d).state = "ok"
    /\ ledger' = [ledger EXCEPT ![d] = CorruptLedger]
    /\ run' = [NoRun EXCEPT !.op = "external", !.dir = d]
    /\ UNCHANGED <<pathv, dirs, files, startMenu, faulted>>

\* an installation with its ledger is moved to a directory that did not
\* exist; the ledger keeps the install_path that install() wrote
InstallationMoved(d, e) ==
    /\ steps < MaxSteps
    /\ steps' = steps + 1
    /\ d \in dirs /\ e \notin dirs
    /\ LedgerIn(d).state = "ok"
    /\ dirs' = (dirs \ {d}) \cup {e}
    /\ files' = [files EXCEPT ![e] = files[d], ![d] = {}]
    /\ ledger' = [ledger EXCEPT ![e] = ledger[d], ![d] = NoLedger]
    /\ run' = [NoRun EXCEPT !.op = "external", !.dir = e]
    /\ UNCHANGED <<pathv, startMenu, faulted>>

(***************************************************************************)
(* The orchestrator specification                                          *)
(***************************************************************************)
Init ==
    /\ pathv \in StringsUpTo(MaxInitPath)
    /\ dirs = {}
    /\ files = [d \in Dirs |-> {}]
    /\ ledger = [d \in Dirs |-> NoLedger]
    /\ startMenu = NoShortcuts
    /\ run = NoRun
    /\ steps = 0
    /\ faulted = 0

\* the packaging and the failures are read only by a run that has
\* administrator rights, the running uninstaller's directory only without
\* an install_path argument
Next ==
    \/ \E install_path \in Dirs \cup {None}, probe \in Probes :
         \E no_path \in (IF is_admin(probe) THEN BOOLEAN ELSE {FALSE}),
            pkg \in (IF is_admin(probe) THEN Packagings ELSE {StandardPkg}),
            faults \in (IF is_admin(probe) THEN FaultSets ELSE {{}}) :
            Install(install_path, no_path, probe, pkg, faults)
    \/ \E install_path \in Dirs \cup {None}, silent \in BOOLEAN, probe \in Probes :
         \E current_dir \in (IF is_admin(probe) /\ install_path = None
                             THEN dirs \cup {Elsewhere} ELSE {Elsewhere}) :
            Uninstall(install_path, silent, probe, current_dir)
    \/ \E d \in Dirs : UserAddsFile(d)
    \/ \E d \in Dirs : LedgerDamaged(d)
    \/ \E d \in Dirs, e \in Dirs : InstallationMoved(d, e)

Spec == Init /\ [][Next]_vars

(***************************************************************************)
(* The uninstaller specification: uninstall() run against an installation  *)
(* that install() made in the default directory, whose ledger may have     *)
(* been edited since, next to a directory with a file of the user's        *)
(***************************************************************************)
\* the ledger install() wrote, with an absolute path added to its file list
install_info_edited(install_dir) ==
    [install_info(install_dir) EXCEPT !.installed_files = @ \o <<AbsoluteEntry>>]

InitInstalled ==
    /\ pathv \in {<<>>, add_to_path(<<>>, default_install_path, {}).value}
    /\ dirs = {default_install_path, LocalAppDataDir}
    /\ \E extra \in SUBSET {UserFile} :
          files = [d \in Dirs |->
                     IF d = default_install_path
                     THEN Range(installed_files_written) \cup extra
                     ELSE IF d = LocalAppDataDir THEN {UserFile} ELSE {}]
    /\ \E info \in {install_info(default_install_path),
                    install_info_edited(default_install_path)} :
          ledger = [d \in Dirs |->
                      IF d = default_install_path THEN info ELSE NoLedger]
    /\ startMenu = create_start_menu_shortcut(NoShortcuts, default_install_path, {}).menu
    /\ run = NoRun
    /\ steps = 0
    /\ faulted = 0

NextInstalled ==
    \E install_path \in Dirs \cup {None}, silent \in BOOLEAN, probe \in Probes :
      \E current_dir \in (IF is_admin(probe) /\ install_path = None
                          THEN dirs \cup {Elsewhere} ELSE {Elsewhere}) :
         Uninstall(install_path, silent, probe, current_dir)

SpecInstalled == InitInstalled /\ [][NextInstalled]_vars

(***************************************************************************)
(* The search-path specification: the two mutator calls on their own,      *)
(* from every PATH value up to MaxPathLen characters                       *)
(***************************************************************************)
RegistryFaults == SUBSET {"registry", "broadcast"}

AddToPath(path_to_add, faults) ==
    LET r == add_to_path(pathv, path_to_add, faults)
    IN  /\ pathv' = r.value
        /\ run' = [NoRun EXCEPT !.op = "add_to_path", !.dir = path_to_add,
                                !.old = pathv, !.notify = r.notify,
                                !.raised = faults \cap {"registry"},
                                !.result = IF ~r.returns THEN "blocked"
                                           ELSE IF r.ok THEN "true" ELSE "false"]
        /\ UNCHANGED <<dirs, files, ledger, startMenu, steps, faulted>>

RemoveFromPath(path_to_remove, faults) ==
    LET r == remove_from_path(pathv, path_to_remove, faults)
    IN  /\ pathv' = r.value
        /\ run' = [NoRun EXCEPT !.op = "remove_from_path", !.dir = path_to_remove,
                                !.old = pathv, !.notify = r.notify,
                                !.raised = faults \cap {"registry"},
                                !.result = IF ~r.returns THEN "blocked"
                                           ELSE IF r.ok THEN "true" ELSE "false"]
        /\ UNCHANGED <<dirs, files, ledger, startMenu, steps, faulted>>

InitPath ==
    /\ pathv \in StringsUpTo(MaxPathLen)
    /\ dirs = {}
    /\ files = [d \in Dirs |-> {}]
    /\ ledger = [d \in Dirs |-> NoLedger]
    /\ startMenu = NoShortcuts
    /\ run = NoRun
    /\ steps = 0
    /\ faulted = 0

NextPath ==
    \/ \E d \in Dirs, faults \in RegistryFaults : AddToPath(d, faults)
    \/ \E d \in Dirs, faults \in RegistryFaults : RemoveFromPath(d, faults)

SpecPath == InitPath /\ [][NextPath]_vars

(***************************************************************************)
(* The resource-locator specification: extract_embedded_file called on its *)
(* own for one file, in every packaging of the three files of LocatorFiles *)
(***************************************************************************)
LocatorFiles == {exe_name, uninstaller_exe, "ruping.cmd"}

\* without sys._MEIPASS there is no bundle directory
LocatorPkgs ==
    {Pkg(TRUE, b, l) : b \in SUBSET LocatorFiles, l \in SUBSET LocatorFiles}
        \cup {Pkg(FALSE, {}, l) : l \in SUBSET LocatorFiles}

\* one call extract_embedded_file(filename, default_install_path / filename);
\* raises: copying or writing the file raises
ExtractFile(filename, pkg, raises) ==
    LET faults == IF raises THEN {filename} ELSE {}
        r == extract_embedded_file(filename, pkg, faults)
    IN  /\ steps < MaxCalls
        /\ steps' = steps + 1
        /\ files' = [files EXCEPT ![default_install_path] =
                         IF r.ok THEN @ \cup {filename} ELSE @]
        /\ run' = [NoRun EXCEPT !.op = "extract", !.dir = default_install_path,
                                !.file = filename, !.pkg = pkg, !.raised = faults,
                                !.src = r.src,
                                !.result = IF r.ok THEN "true" ELSE "false"]
        /\ UNCHANGED <<pathv, dirs, ledger, startMenu, faulted>>

\* install() has created install_dir before the first call
InitLocator ==
    /\ pathv = <<>>
    /\ dirs = {default_install_path}
    /\ files = [d \in Dirs |-> {}]
    /\ ledger = [d \in Dirs |-> NoLedger]
    /\ startMenu = NoShortcuts
    /\ run = NoRun
    /\ steps = 0
    /\ faulted = 0

NextLocator ==
    \E filename \in Range(files_to_extract), pkg \in LocatorPkgs, raises \in BOOLEAN :
        ExtractFile(filename, pkg, raises)

SpecLocator == InitLocator /\ [][NextLocator]_vars

(***************************************************************************)
(* Properties                                                              *)
(***************************************************************************)
State == <<pathv, dirs, files, ledger, startMenu>>

ProductFiles == Range(installed_files_written)

IsPrefix(s, t) == Len(s) <= Len(t) /\ SubSeq(t, 1, Len(s)) = s

\* C3: after add_to_path(dir) has returned true, dir is one of the
\* delimiter-separated entries of the stored PATH value, and the entries that
\* were there before are still there, in the same order and number.
C3_AddedDirIsAnEntry ==
    (run.op = "add_to_path" /\ run.result = "true") =>
        /\ Count(pathv, run.dir) >= 1
        /\ IsPrefix(Split(run.old), Split(pathv))

\* C4: remove_from_path(dir) stores the entries of the value it read, without
\* those equal to dir, in their order, joined by single delimiters: dir is no
\* entry afterwards, the other entries (duplicates and empty ones included)
\* are all kept, and no trailing delimiter appears.
C4_RemoveDropsExactlyDir ==
    (run.op = "remove_from_path" /\ run.result = "true") =>
        LET kept == SelectSeq(Split(run.old), LAMBDA p : p # run.dir)
        IN  /\ Count(pathv, run.dir) = 0
            /\ IF kept = <<>> THEN pathv = <<>> ELSE Split(pathv) = kept
            /\ (pathv # <<>> /\ pathv[Len(pathv)] = Delim) => kept[Len(kept)] = <<>>
            /\ (run.old = <<"l", Delim, "p", "l", Delim, "p">> /\ run.dir = <<"p">>)
                   => pathv = <<"l", Delim, "p", "l">>

\* a removal that dropped the last of three entries and kept two unrelated ones
C4_Witness ==
    /\ run.op = "remove_from_path" /\ run.result = "true"
    /\ run.dir = <<"p">>
    /\ run.old = <<"l", Delim, "p", "l", Delim, "p">>
    /\ pathv = <<"l", Delim, "p", "l">>

\* C5: a run of install() or uninstall() whose privilege probe does not say
\* administrator (it says no, or it fails) ends at once in failure: no file and
\* no directory is created or deleted, PATH, the shortcuts and the ledgers stay
\* as they were, no ledger is read and nothing is asked.
C5_NoRightsNoEffects ==
    [][(run'.op \in {"install", "uninstall"} /\ run'.rights # "admin") =>
           /\ run'.result = "exit"
           /\ UNCHANGED State
           /\ run'.via = "none" /\ ~run'.usedInfo /\ run'.prompts = {}
           /\ run'.extracted = <<>> /\ run'.tried = {}]_vars

\* uninstall() stopped by a failed probe while an installation is in place
C5_Witness ==
    /\ run.op = "uninstall" /\ run.rights = "error" /\ run.result = "exit"
    /\ \E d \in dirs : ProductFiles \subseteq files[d] /\ Count(pathv, d) = 1

\* C1: install() that succeeded, followed directly by uninstall() of the same
\* directory in which nothing failed, leaves none of the installer's files in
\* the directory and no PATH entry equal to it, and the directory is gone
\* exactly if it is empty, however uninstall() came to the directory.
C1_RoundTrip ==
    [][(/\ run.op = "install" /\ run.result = "true"
        /\ run'.op = "uninstall" /\ run'.result = "true" /\ run'.dir = run.dir
        /\ run'.pathRes = "ok" /\ run'.undeleted = {} /\ run'.rmdirRes # "fail") =>
           /\ files'[run.dir] \cap ProductFiles = {}
           /\ Count(pathv', run.dir) = 0
           /\ (run.dir \notin dirs') <=> (files'[run.dir] = {})]_vars

\* C2: install() run twice in a row on the same directory with path
\* registration, both runs succeeding in every step, ends with the files the
\* first run left, with the directory exactly once among the PATH entries, and
\* with the one shortcut and the one ledger of the first run.
C2_InstallTwice ==
    [][(/\ run.op = "install" /\ run.result = "true" /\ run.pathRes = "ok"
        /\ run.shortcutRes = "ok" /\ run.ledgerRes = "ok"
        /\ run'.op = "install" /\ run'.result = "true" /\ run'.pathRes = "ok"
        /\ run'.shortcutRes = "ok" /\ run'.ledgerRes = "ok"
        /\ run'.dir = run.dir) =>
           /\ files' = files
           /\ Count(pathv', run.dir) = 1
           /\ startMenu' = startMenu
           /\ ledger' = ledger]_vars

\* C6: uninstall() that goes through with a directory holding a parseable
\* ledger tries to delete exactly the files of the ledger's installed_files,
\* however the directory was found.
C6_LedgerListIsDeleted ==
    [][(/\ run'.op = "uninstall" /\ run'.result = "true"
        /\ LedgerIn(run'.dir).state = "ok") =>
           /\ run'.listed = LedgerIn(run'.dir).installed_files
           /\ run'.tried = Range(LedgerIn(run'.dir).installed_files)
                               \cap FilesIn(run'.dir)]_vars

\* C7: uninstall() deletes no file outside its deletion list and no file of
\* another directory; it removes no directory but install_dir, and that one
\* only when the listed deletions have emptied it; a file the user added
\* stays, and its directory with it.
C7_OnlyListedFilesDeleted ==
    [][run'.op = "uninstall" =>
           \A d \in Dirs :
               /\ (FilesIn(d) \ files'[d]) \subseteq
                      (IF d = run'.dir THEN Range(run'.listed) ELSE {})
               /\ (d \in dirs /\ d \notin dirs') =>
                      /\ d = run'.dir
                      /\ files[d] \subseteq (run'.tried \ run'.undeleted)
               /\ UserFile \in FilesIn(d) => (d \in dirs' /\ UserFile \in files'[d])]_vars

\* uninstall() went through and kept the directory for the user's file
C7_Witness ==
    /\ run.op = "uninstall" /\ run.result = "true" /\ run.usedInfo
    /\ run.tried = ProductFiles /\ run.rmdirRes = "kept"
    /\ run.dir \in dirs /\ files[run.dir] = {UserFile}

MainFiles == {exe_name} \cup Range(alias_cmds)

\* C8: uninstall() started without install_path from an installation whose
\* ledger cannot be parsed, and confirmed or silent, returns true: it goes on
\* without a ledger, takes the directory because it holds the main executable,
\* uses the default file list, and deletes the main executable and the three
\* launcher scripts (each is gone unless its unlink raised).
C8_CorruptLedgerFallsBack ==
    [][(/\ run'.op = "uninstall" /\ run'.rights = "admin"
        /\ run'.from \in dirs
        /\ ledger[run'.from].state = "corrupt"
        /\ exe_name \in files[run'.from]
        /\ (run'.silent \/ run'.answer \in {"y", "yes"})) =>
           /\ run'.result = "true"
           /\ run'.ledgerRes = "fail" /\ ~run'.usedInfo
           /\ run'.via = "current" /\ run'.dir = run'.from
           /\ run'.listed = default_files_to_remove
           /\ \A f \in MainFiles \cap files[run'.from] :
                  /\ f \in run'.tried
                  /\ f \in files'[run'.from] => f \in run'.undeleted]_vars

\* uninstall() met an unreadable ledger and removed the default files
C8_Witness ==
    /\ run.op = "uninstall" /\ run.result = "true" /\ run.ledgerRes = "fail"
    /\ run.via = "current" /\ run.listed = default_files_to_remove
    /\ MainFiles \subseteq run.tried /\ run.undeleted = {}
    /\ run.dir \in dirs /\ files[run.dir] = {uninstaller_exe}

\* C9: uninstall() whose confirmation is answered with anything but y or yes
\* returns false and leaves PATH, the shortcuts, every file and every
\* directory as they were.
C9_DeclinedNoEffects ==
    [][(run'.op = "uninstall" /\ run'.answer \notin {"y", "yes", "-"}) =>
           /\ run'.result = "false"
           /\ UNCHANGED State]_vars

\* uninstall() of a complete, registered installation was declined
C9_Witness ==
    /\ run.op = "uninstall" /\ run.answer = "n" /\ run.result = "false"
    /\ run.dir \in dirs /\ ProductFiles \subseteq files[run.dir]
    /\ Count(pathv, run.dir) = 1 /\ startMenu["RuPing.url"] = run.dir

\* C10: install() in which the extraction of one file fails returns false at
\* that file: the files before it in files_to_extract have been written and
\* stay, neither it nor a later file is written, and PATH, the shortcuts and
\* the ledgers are as they were.
C10_ExtractionFailureStops ==
    [][(run'.op = "install" /\ run'.failed # "") =>
           /\ run'.result = "false"
           /\ \E k \in 1..Len(files_to_extract) :
                  /\ files_to_extract[k] = run'.failed
                  /\ run'.extracted = SubSeq(files_to_extract, 1, k - 1)
           /\ files'[run'.dir] = FilesIn(run'.dir) \cup Range(run'.extracted)
           /\ \A d \in Dirs \ {run'.dir} : files'[d] = files[d]
           /\ pathv' = pathv /\ startMenu' = startMenu /\ ledger' = ledger]_vars

\* install() stopped at the second file and left the first in place
C10_Witness ==
    /\ run.op = "install" /\ run.result = "false"
    /\ run.failed = uninstaller_exe /\ run.extracted = <<exe_name>>
    /\ files[run.dir] = {exe_name} /\ Count(pathv, run.dir) = 0

\* C11: install() that has extracted every file of files_to_extract, and
\* whose path step has returned, returns true whether add_to_path, the
\* shortcut and the ledger succeeded or failed; the shortcut and the ledger
\* are attempted after a failed step before them, and take effect unless
\* they fail themselves.
C11_InstallTrueAfterExtraction ==
    [][(/\ run'.op = "install" /\ run'.rights = "admin"
        /\ run'.extracted = files_to_extract
        /\ run'.result # "blocked") =>
           /\ run'.result = "true"
           /\ run'.pathRes \in (IF run'.no_path THEN {"skip"} ELSE {"ok", "fail"})
           /\ run'.shortcutRes \in {"ok", "fail"}
           /\ run'.ledgerRes \in {"ok", "fail"}
           /\ run'.shortcutRes = "ok" => startMenu'["RuPing.url"] = run'.dir
           /\ run'.ledgerRes = "ok" => ledger'[run'.dir] = install_info(run'.dir)]_vars

\* install() returned true although add_to_path failed, and went on to the
\* shortcut and the ledger
C11_Witness ==
    /\ run.op = "install" /\ run.result = "true" /\ run.pathRes = "fail"
    /\ run.shortcutRes = "ok" /\ run.ledgerRes = "ok"
    /\ startMenu["RuPing.url"] = run.dir /\ ledger[run.dir].state = "ok"
    /\ Count(pathv, run.dir) = 0

\* C12: extract_embedded_file called for a file that is in the bundle
\* directory and has an entry in EMBEDDED_FILES copies the file of the bundle
\* and returns true; when that copy raises it returns false; in neither case
\* does it write the content of the table or a local file.
C12_BundleBeforeTable ==
    (/\ run.op = "extract" /\ run.pkg.meipass
     /\ run.file \in run.pkg.bundled
     /\ run.file \in DOMAIN EMBEDDED_FILES) =>
        /\ run.src \in {"bundle", "none"}
        /\ run.raised = {} =>
               /\ run.result = "true" /\ run.src = "bundle"
               /\ run.file \in files[run.dir]
        /\ run.raised # {} => (run.result = "false" /\ run.src = "none")

\* a launcher script that has content in the table was taken from the bundle
C12_Witness ==
    /\ run.op = "extract" /\ run.file = "ruping.cmd"
    /\ EMBEDDED_FILES[run.file]
    /\ run.pkg.meipass /\ run.file \in run.pkg.bundled
    /\ run.result = "true" /\ run.src = "bundle"
    /\ run.file \in files[run.dir]

\* C13: uninstall() in silent mode with administrator rights asks for no
\* input; when it returns true it has called unlink on every listed file that
\* was in install_dir, and those are gone unless unlink raised; when it
\* returns false nothing has been changed; started without install_path it
\* returns false only when find_installation gave no existing directory.
C13_SilentNeverAsks ==
    [][(run'.op = "uninstall" /\ run'.silent /\ run'.rights = "admin") =>
           /\ run'.prompts = {} /\ run'.answer = "-"
           /\ run'.result \in {"true", "false"}
           /\ run'.result = "true" =>
                  /\ run'.dir \in dirs
                  /\ run'.tried = Range(run'.listed) \cap files[run'.dir]
                  /\ files'[run'.dir] = files[run'.dir] \ (run'.tried \ run'.undeleted)
           /\ run'.result = "false" => UNCHANGED State
           /\ run'.from # None =>
                  (run'.result = "true" <=> find_installation(run'.from).dir \in dirs)]_vars

\* a silent uninstall() removed a complete installation without a prompt
C13_Witness ==
    /\ run.op = "uninstall" /\ run.silent /\ run.result = "true"
    /\ run.prompts = {} /\ run.answer = "-"
    /\ run.usedInfo /\ run.tried = ProductFiles
    /\ run.dir \notin dirs /\ files[run.dir] = {}

\* C14: install() with no_path does not write the PATH value and sends no
\* broadcast; when the extraction is complete it returns true with the files
\* of files_to_extract in install_dir, and the shortcut and the ledger are
\* written unless their own step fails.
C14_NoPathLeavesPath ==
    [][(run'.op = "install" /\ run'.no_path) =>
           /\ pathv' = pathv
           /\ run'.notify = "none" /\ run'.pathRes = "skip"
           /\ run'.extracted = files_to_extract =>
                  /\ run'.result = "true"
                  /\ Range(files_to_extract) \subseteq files'[run'.dir]
                  /\ run'.shortcutRes \in {"ok", "fail"}
                  /\ run'.shortcutRes = "ok" => startMenu'["RuPing.url"] = run'.dir
                  /\ run'.ledgerRes \in {"ok", "fail"}
                  /\ run'.ledgerRes = "ok" =>
                         /\ ledger'[run'.dir] = install_info(run'.dir)
                         /\ install_info_file \in files'[run'.dir]]_vars

\* install() with no_path produced files, shortcut and ledger, and the
\* directory is no PATH entry
C14_Witness ==
    /\ run.op = "install" /\ run.no_path /\ run.result = "true"
    /\ run.pathRes = "skip" /\ run.notify = "none"
    /\ ProductFiles \subseteq files[run.dir]
    /\ startMenu["RuPing.url"] = run.dir /\ ledger[run.dir].state = "ok"
    /\ Count(pathv, run.dir) = 0 /\ ~IsSubstr(run.dir, pathv)

\* C15: extract_embedded_file that meets no exception returns true whenever
\* the file is in the bundle, at a local candidate path or has content in
\* EMBEDDED_FILES, and takes it from the first of these three that has it;
\* this holds for every file name, those with an empty entry in the table
\* included.
C15_LocatedWhereverItIs ==
    LET inBundle == run.pkg.meipass /\ run.file \in run.pkg.bundled
        atLocal == run.file \in run.pkg.localf
        inTable == run.file \in DOMAIN EMBEDDED_FILES /\ EMBEDDED_FILES[run.file]
    IN  (run.op = "extract" /\ run.raised = {}) =>
            /\ (inBundle \/ atLocal \/ inTable) <=> run.result = "true"
            /\ run.src = IF inBundle THEN "bundle"
                         ELSE IF atLocal THEN "local"
                         ELSE IF inTable THEN "embedded"
                         ELSE "none"

\* C16: no run of install() or uninstall(), and no call of add_to_path or
\* remove_from_path, is left waiting in its broadcast: a window that never
\* answers the settings-changed message does not keep the call from
\* returning.
C16_BroadcastReturns ==
    run.op \in {"install", "uninstall", "add_to_path", "remove_from_path"} =>
        run.result # "blocked"

\* C17: uninstall() started without install_path finds the installation
\* through the ledger in the running program's directory when that ledger can
\* be read; else in that directory itself, without ledger, when it holds the
\* main executable; else in the first of possible_paths that holds the main
\* executable; it reports that nothing was found only when none of these
\* three looks succeeds.
C17_FirstHitWins ==
    [][(run'.op = "uninstall" /\ run'.from # None) =>
           LET cur == run'.from
               hits == {i \in 1..Len(possible_paths) :
                            exe_name \in FilesIn(possible_paths[i])}
           IN  IF LedgerIn(cur).state = "ok"
               THEN /\ run'.via = "ledger" /\ run'.dir # None
                    /\ run'.result = "true" => run'.usedInfo
               ELSE IF exe_name \in FilesIn(cur)
               THEN run'.via = "current" /\ run'.dir = cur /\ ~run'.usedInfo
               ELSE IF hits # {}
               THEN /\ run'.via = "probe" /\ ~run'.usedInfo
                    /\ \E i \in hits : /\ run'.dir = possible_paths[i]
                                       /\ \A j \in hits : i <= j
               ELSE /\ run'.via \in {"none", "manual"} /\ ~run'.usedInfo
                    /\ run'.via = "none" => (run'.result = "false" /\ run'.dir = None)]_vars

\* C18: after install() has returned true and written the ledger, the
\* ledger's installed_files names each file the extraction loop of this run
\* wrote and the ledger file itself, each once, and no other file.
C18_LedgerListsWhatWasWritten ==
    [][(run'.op = "install" /\ run'.result = "true" /\ run'.ledgerRes = "ok") =>
           LET listed == ledger'[run'.dir].installed_files
           IN  /\ Range(listed) = Range(run'.extracted) \cup {install_info_file}
               /\ Len(listed) = Cardinality(Range(listed))]_vars

\* install() wrote five files and a ledger that lists the six
C18_Witness ==
    /\ run.op = "install" /\ run.result = "true" /\ run.ledgerRes = "ok"
    /\ Len(run.extracted) = 5
    /\ Cardinality(Range(ledger[run.dir].installed_files)) = 6
    /\ Range(ledger[run.dir].installed_files) \subseteq files[run.dir]

\* C19: uninstall() with administrator rights that has its directory and is
\* silent or confirmed returns true; the PATH removal, the shortcut removal,
\* the unlink of every listed file that is there and the directory removal
\* are each attempted, whatever failed before them, and each takes effect
\* unless it fails itself.
C19_UninstallTrueDespiteFailures ==
    [][(/\ run'.op = "uninstall" /\ run'.rights = "admin" /\ run'.dir # None
        /\ (run'.silent \/ run'.answer \in {"y", "yes"})) =>
           /\ run'.result = "true"
           /\ run'.pathRes \in {"ok", "fail"}
           /\ run'.pathRes = "ok" => Count(pathv', run'.dir) = 0
           /\ run'.shortcutRes \in {"ok", "fail"}
           /\ run'.shortcutRes = "ok" => startMenu' = NoShortcuts
           /\ run'.tried = Range(run'.listed) \cap files[run'.dir]
           /\ run'.undeleted \subseteq run'.tried
           /\ files'[run'.dir] = files[run'.dir] \ (run'.tried \ run'.undeleted)
           /\ run'.rmdirRes \in {"ok", "fail", "kept"}
           /\ run'.rmdirRes = "ok" <=> run'.dir \notin dirs']_vars

\* uninstall() returned true although a file could not be deleted; the PATH
\* entry is gone and the directory was kept
C19_Witness ==
    /\ run.op = "uninstall" /\ run.result = "true"
    /\ run.undeleted # {} /\ run.undeleted \subseteq files[run.dir]
    /\ run.pathRes = "ok" /\ Count(pathv, run.dir) = 0
    /\ run.rmdirRes = "kept" /\ run.dir \in dirs

\* C20: remove_from_path returns true or false and raises nothing; it returns
\* true exactly when neither reading nor writing the PATH value raised, and
\* then the PATH value is the old one without the entries equal to the
\* directory; when it returns false the PATH value is the old one.
C20_RemoveReturnsWhatWasWritten ==
    run.op = "remove_from_path" =>
        /\ run.result \in {"true", "false"}
        /\ run.result = "true" <=> run.raised = {}
        /\ run.result = "true" =>
               pathv = Join(SelectSeq(Split(run.old), LAMBDA p : p # run.dir))
        /\ run.result = "false" => pathv = run.old

\* remove_from_path failed at the registry and left the entry in place
C20_Witness ==
    /\ run.op = "remove_from_path" /\ run.result = "false"
    /\ run.raised = {"registry"}
    /\ pathv = run.old /\ Count(pathv, run.dir) = 1

\* C23: uninstall() that found its installation through a ledger works on the
\* directory that ledger lies in and changes no other directory; uninstall()
\* that took its directory from the manual prompt uses no ledger's file list.
C23_LedgerStaysWithItsDirectory ==
    [][(run'.op = "uninstall" /\ run'.from # None) =>
           /\ (run'.via = "ledger" /\ run'.dir # None) => run'.dir = run'.from
           /\ run'.via = "ledger" =>
                  \A d \in Dirs \ {run'.from} :
                      files'[d] = files[d] /\ (d \in dirs => d \in dirs')
           /\ run'.via = "manual" =>
                  (~run'.usedInfo /\ run'.listed \in {<<>>, default_files_to_remove})]_vars

\* C24: every file install() has written into install_dir, the ledger file
\* included, is named in the default files_to_remove of uninstall().
C24_DefaultListCoversOutput ==
    (run.op = "install" /\ run.result = "true") =>
        (Range(run.extracted)
             \cup (IF run.ledgerRes = "ok" THEN {install_info_file} ELSE {}))
            \subseteq Range(default_files_to_remove)

\* C25: the file create_start_menu_shortcut writes is one of those
\* remove_start_menu_shortcut unlinks: uninstall() that returns true directly
\* after install() has written the shortcut leaves no shortcut of the product,
\* unless the unlink raised; with no shortcut there, the removal raises
\* nothing, reports false and leaves the Start Menu as it was.
C25_ShortcutRoundTrip ==
    [][(run'.op = "uninstall" /\ run'.result = "true") =>
           /\ created_shortcut \in Range(ShortcutNames)
           /\ (/\ run.op = "install" /\ run.result = "true"
               /\ run.shortcutRes = "ok" /\ run'.raised = {}) =>
                  (run'.shortcutRes = "ok" /\ startMenu' = NoShortcuts)
           /\ startMenu = NoShortcuts =>
                  /\ run'.shortcutRes = "fail" /\ run'.raised = {}
                  /\ startMenu' = startMenu]_vars

\* uninstall() removed the shortcut that pointed into its directory
C25_Witness ==
    /\ run.op = "uninstall" /\ run.result = "true" /\ run.answer \in {"y", "yes"}
    /\ run.shortcutRes = "ok" /\ run.raised = {}
    /\ startMenu = NoShortcuts

\* C22: every file uninstall() deletes lies directly in install_dir, whatever
\* the entries of the ledger's installed_files are: no directory other than
\* install_dir loses a file in a run of uninstall().
C22_DeletionsStayInInstallDir ==
    [][run'.op = "uninstall" =>
           \A d \in Dirs : (files[d] \ files'[d]) # {} => d = run'.dir]_vars

====
